---- MODULE Spec2Model ----
(***************************************************************************)
(* Model of app/main.py of folio-setae-api: the GET /items/{barcode}       *)
(* handler read_item and its helpers.  One request is one run of the state *)
(* machine; every outbound call and every stage of the handler is a step.  *)
(* Text is a sequence of one-character strings; an optional JSON value is  *)
(* a record [present, v] (absent key and null behave alike under .get).    *)
(***************************************************************************)
EXTENDS Integers, Sequences, FiniteSets, TLC

\* ------------------------------------------------------------------ bounds
\* Longest call-number component drawn for the Normalizer.
MaxLen == 4
\* Longest prefix drawn for the Replacement Engine.
MaxInput == 3
\* Most rows of the rule table drawn for the Replacement Engine.
MaxRules == 2
\* Most entries of an order line's fundDistribution.
MaxFunds == 2

\* ------------------------------------------------------------ text helpers
NoStr == [present |-> FALSE, v |-> <<>>]
Some(s) == [present |-> TRUE, v |-> s]

\* Python truthiness of an optional string: not None and not "".
Truthy(o) == o.present /\ o.v # <<>>

\* The characters str.strip() removes, within the model's alphabet.
IsWhitespace(c) == c \in {" ", "\t"}

\* str.lower() on the model's alphabet, as re.IGNORECASE compares.
Lower(c) ==
    CASE c = "A" -> "a"
      [] c = "B" -> "b"
      [] OTHER -> c

SeqsUpTo(S, n) == UNION {[1..k -> S] : k \in 0..n}

\* re.sub(" +", " ", v): every run of spaces becomes one space.
RECURSIVE CollapseSpaces(_)
CollapseSpaces(s) ==
    IF Len(s) < 2 THEN s
    ELSE IF s[1] = " " /\ s[2] = " " THEN CollapseSpaces(Tail(s))
    ELSE <<s[1]>> \o CollapseSpaces(Tail(s))

RECURSIVE LStrip(_)
LStrip(s) ==
    IF s # <<>> /\ IsWhitespace(s[1]) THEN LStrip(Tail(s)) ELSE s

RECURSIVE RStrip(_)
RStrip(s) ==
    IF s # <<>> /\ IsWhitespace(s[Len(s)])
    THEN RStrip(SubSeq(s, 1, Len(s) - 1))
    ELSE s

\* str.strip()
Strip(s) == RStrip(LStrip(s))

\* A variant that strips only on the left.
TrimValueLeftOnly(v) == LStrip(CollapseSpaces(v))

\* _trim_callno_components, lines 318-320: re.sub(" +", " ", v).strip()
TrimValue(v) == Strip(CollapseSpaces(v))

\* ------------------------------------------------------ Replacement Engine
\* A variant that leaves the anchors out.
RegexOfUnanchored(rep) ==
    [pat |-> [bol |-> FALSE, lit |-> rep.string, eol |-> FALSE],
     repl |-> rep.replacement]

\* A compiled pattern rf"^{string}$" with its replacement: the rule string as
\* literal text between the two anchors.
RegexOf(rep) ==
    [pat |-> [bol |-> TRUE, lit |-> rep.string, eol |-> TRUE],
     repl |-> rep.replacement]

\* _reps_to_regex: the rows of the table for one field, in table order.
RECURSIVE _reps_to_regex(_, _)
_reps_to_regex(replacements, field) ==
    IF replacements = <<>> THEN <<>>
    ELSE (IF Head(replacements).field = field
          THEN <<RegexOf(Head(replacements))>>
          ELSE <<>>) \o _reps_to_regex(Tail(replacements), field)

\* Whether the pattern matches the text at position i (1-based), ignoring case.
MatchAt(pat, s, i) ==
    /\ pat.bol => i = 1
    /\ i + Len(pat.lit) - 1 <= Len(s)
    /\ \A k \in 1..Len(pat.lit) : Lower(pat.lit[k]) = Lower(s[i + k - 1])
    /\ pat.eol => i + Len(pat.lit) - 1 = Len(s)

\* re.sub(pattern, repl, s, flags=re.IGNORECASE): scan left to right and
\* replace every non-overlapping match.
RECURSIVE SubFrom(_, _, _, _)
SubFrom(pat, repl, s, i) ==
    IF i > Len(s) + 1 THEN <<>>
    ELSE IF MatchAt(pat, s, i)
    THEN repl \o (IF Len(pat.lit) = 0
                  THEN (IF i <= Len(s)
                        THEN <<s[i]>> \o SubFrom(pat, repl, s, i + 1)
                        ELSE <<>>)
                  ELSE SubFrom(pat, repl, s, i + Len(pat.lit)))
    ELSE IF i <= Len(s) THEN <<s[i]>> \o SubFrom(pat, repl, s, i + 1)
    ELSE <<>>

ReSub(pat, repl, s) == SubFrom(pat, repl, s, 1)

\* _replace_string: every pattern in turn, each on the previous result.
RECURSIVE _replace_string(_, _)
_replace_string(string, regex) ==
    IF regex = <<>> THEN string
    ELSE _replace_string(ReSub(Head(regex).pat, Head(regex).repl, string),
                         Tail(regex))

\* ------------------------------------------------------ Vocabulary Mapper
\* str(code) for the codes the mapper produces.
Str(n) ==
    CASE n = 0 -> "0" [] n = 1 -> "1" [] n = 2 -> "2" [] n = 3 -> "3"
      [] n = 4 -> "4" [] n = 5 -> "5" [] n = 6 -> "6" [] n = 7 -> "7"
      [] n = 8 -> "8" [] OTHER -> "None"

\* A variant that forgets to relabel "LC Modified".
CallnoTypeNoRelabel(name) ==
    CASE name = "Library of Congress classification" -> [name |-> name, code |-> 0]
      [] name = "LC Modified" -> [name |-> name, code |-> 0]
      [] name = "Dewey Decimal classification" -> [name |-> name, code |-> 1]
      [] name = "National Library of Medicine classification" -> [name |-> name, code |-> 2]
      [] name = "Superintendent of Documents classification" -> [name |-> name, code |-> 3]
      [] name = "Shelving control number" -> [name |-> name, code |-> 4]
      [] name = "Title" -> [name |-> name, code |-> 5]
      [] name = "Shelved separately" -> [name |-> name, code |-> 6]
      [] OTHER -> [name |-> "Other scheme", code |-> 8]

\* The match statement of _set_callno_type: (name, code) for a type name.
CallnoType(name) ==
    CASE name = "Library of Congress classification" -> [name |-> name, code |-> 0]
      [] name = "LC Modified" ->
            [name |-> "Library of Congress classification", code |-> 0]
      [] name = "Dewey Decimal classification" -> [name |-> name, code |-> 1]
      [] name = "National Library of Medicine classification" -> [name |-> name, code |-> 2]
      [] name = "Superintendent of Documents classification" -> [name |-> name, code |-> 3]
      [] name = "Shelving control number" -> [name |-> name, code |-> 4]
      [] name = "Title" -> [name |-> name, code |-> 5]
      [] name = "Shelved separately" -> [name |-> name, code |-> 6]
      [] OTHER -> [name |-> "Other scheme", code |-> 8]

\* ------------------------------------------------------------ Fund attachment
plate_funds == {"p2053", "p2052"}

\* The loop over fund["fundDistribution"]: every entry whose code is a plate
\* fund is assigned to item["fund"] in turn (the loop has no break).
RECURSIVE AttachFund(_, _)
AttachFund(fds, cur) ==
    IF fds = <<>> THEN cur
    ELSE AttachFund(Tail(fds),
                    IF Head(fds).has_code /\ Head(fds).code \in plate_funds
                    THEN Head(fds).code
                    ELSE cur)

\* ------------------------------------------------------------------ Normalizer
\* One component of _trim_callno_components: a truthy value is rewritten.
TrimComp(o) == IF Truthy(o) THEN Some(TrimValue(o.v)) ELSE o

\* The components after the loop of _trim_callno_components.
TrimComps(ecc) ==
    [callNumber |-> TrimComp(ecc.callNumber),
     prefix |-> TrimComp(ecc.prefix),
     suffix |-> TrimComp(ecc.suffix)]

\* ------------------------------------------------------------------ documents
NoLocation == [id |-> "None", name |-> "None"]
NoEcc == [callNumber |-> NoStr, prefix |-> NoStr, suffix |-> NoStr]
NoItem ==
    [found |-> FALSE, holdingsRecordId |-> "None", ecc |-> NoEcc,
     fund |-> "None", effectiveLocation |-> NoLocation]

NoXml == [root |-> "None", item |-> NoItem, message |-> <<"", 0>>]

\* etree.tostring(E.error(E.message(f"No item found for barcode {barcode}")))
ErrorDoc(b) ==
    [root |-> "error", item |-> NoItem,
     message |-> <<"No item found for barcode ", b>>]

\* json2xml.Json2xml(item, wrapper="item").to_xml()
ItemXml(it) == [root |-> "item", item |-> it, message |-> <<"", 0>>]

NoPatch ==
    [date_of_publication |-> "", mms_id |-> "", public_note |-> "",
     call_number_type_desc |-> "", call_number_type |-> ""]

NoResult == [transformed |-> FALSE, src |-> NoXml, patch |-> NoPatch]

\* etree.XSLT(etree.parse("./alma-rest-item.xsl")) applied to the generic XML:
\* the target-schema document, its four patched leaves still empty.
Xslt(xml) == [transformed |-> TRUE, src |-> xml, patch |-> NoPatch]

\* The generic XML returned as is (transform false).
Untransformed(xml) == [transformed |-> FALSE, src |-> xml, patch |-> NoPatch]

NoJson == [ok |-> FALSE, has_items |-> FALSE, items |-> <<>>]
NoResponse == [sent |-> FALSE, media |-> "None", json |-> NoJson, xml |-> NoResult]

\* ---------------------------------------------------------------- the state
VARIABLES
    barcode, format, replace, transform,  \* the request's parameters
    csv_file,             \* the rows of ./prefix-suffix.csv
    pc,                   \* the handler's position
    trace,                \* outbound calls and stages so far, in order
    folio_inventory,      \* the item query's response
    item, pol, fund, holdings_record,
    permanent_location_id, permanent_location, instance_id,
    prefix, suffix, replacements,
    xml_raw, result, instance,
    call_number_type_result,  \* the name the call-number-type lookup answered
    response,             \* what the handler returned
    failure               \* the exception that ended the request

vars ==
    <<barcode, format, replace, transform, csv_file, pc, trace,
      folio_inventory, item, pol, fund, holdings_record,
      permanent_location_id, permanent_location, instance_id,
      prefix, suffix, replacements, xml_raw, result, instance,
      call_number_type_result, response, failure>>

request == <<barcode, format, replace, transform, csv_file>>

\* ------------------------------------------------- what the platform can answer
Barcodes == {36105, 42}
Formats == {"xml", "json"}

Rule(f, s, r) == [field |-> f, string |-> s, replacement |-> r]

\* Rule tables of the request model.
RuleTables ==
    { <<>>,
      <<Rule("suffix", <<"a", "b">>, <<"S">>),
        Rule("prefix", <<"a", "b">>, <<"F">>),
        Rule("prefix", <<"f">>, <<"G", "2">>)>> }

RawItem(cn, pre, suf) ==
    [found |-> TRUE, holdingsRecordId |-> "h1",
     ecc |-> [callNumber |-> cn, prefix |-> pre, suffix |-> suf],
     fund |-> "None",
     effectiveLocation |-> [id |-> "locE", name |-> "Effective"]]

\* The items the item query can return in the request model.
FoundItems ==
    { RawItem(Some(<<"Q", " ", " ", "7">>), Some(<<" ", "A", "b", " ">>), NoStr),
      RawItem(Some(<<"Q">>), Some(<<"x", "A", "b">>), Some(<<"a", "b">>)),
      RawItem(NoStr, Some(<<>>), Some(<<"\t", "a", " ", " ", "b">>)) }

\* The item query's answers: a collection of zero or one item, or an error body.
ItemQueryResponses ==
    {[ok |-> TRUE, has_items |-> TRUE, items |-> <<>>]}
    \cup {[ok |-> TRUE, has_items |-> TRUE, items |-> <<it>>] : it \in FoundItems}
    \cup {[ok |-> FALSE, has_items |-> FALSE, items |-> <<>>]}

\* A response body is JSON of the expected shape ("json"), a JSON error object
\* without the expected keys ("errors"), or not JSON at all ("text").
NoPol == [bound |-> FALSE, summaries |-> 0]
HoldingSummaryResponses ==
    {[ok |-> TRUE, body |-> "json", summaries |-> n] : n \in 0..2}
    \cup {[ok |-> FALSE, body |-> b, summaries |-> 0] : b \in {"errors", "text"}}

FundCodes == {"p2053", "p2052", "x999"}
FundEntries ==
    {[has_code |-> TRUE, code |-> c] : c \in FundCodes}
    \cup {[has_code |-> FALSE, code |-> "None"]}
NoFund == [bound |-> FALSE, has_fd |-> FALSE, fd |-> <<>>]
OrderLineResponses ==
    {[ok |-> TRUE, body |-> "json", has_fd |-> TRUE, fd |-> l] :
        l \in SeqsUpTo(FundEntries, MaxFunds)}
    \cup {[ok |-> TRUE, body |-> "json", has_fd |-> FALSE, fd |-> <<>>]}
    \cup {[ok |-> FALSE, body |-> b, has_fd |-> FALSE, fd |-> <<>>] :
            b \in {"errors", "text"}}

NoHoldings ==
    [bound |-> FALSE, permanentLocationId |-> "None", instanceId |-> "None",
     callNumberTypeId |-> "None"]
HoldingsRecords ==
    {[bound |-> TRUE, permanentLocationId |-> l, instanceId |-> "in1",
      callNumberTypeId |-> c] : l \in {"None", "loc1"}, c \in {"None", "cnt1"}}

LocationNames == {"None", "Stacks"}

Notes ==
    { NoStr,
      Some(<<>>),
      Some(<<[instanceNoteTypeId |-> "nt2", note |-> "Other"],
             [instanceNoteTypeId |-> "nt1", note |-> "Coll A"],
             [instanceNoteTypeId |-> "nt1", note |-> "Coll B"]>>) }
NoInstance == [bound |-> FALSE, publication |-> <<>>, hrid |-> "None", notes |-> NoStr]
Instances ==
    {[bound |-> TRUE, publication |-> p, hrid |-> "a123", notes |-> n] :
        p \in {<<>>, <<"1999">>}, n \in Notes}

NoteTypeResponses == {<<>>, <<"nt1">>}

CallNumberTypeNames ==
    { "Library of Congress classification", "LC Modified",
      "Dewey Decimal classification",
      "National Library of Medicine classification",
      "Superintendent of Documents classification",
      "Shelving control number", "Title", "Shelved separately",
      "Foo", "" }

\* ------------------------------------------------------------------- Init
Init ==
    /\ barcode \in Barcodes
    /\ format \in Formats
    /\ replace \in BOOLEAN
    /\ transform \in BOOLEAN
    /\ csv_file \in RuleTables
    /\ pc = "login"
    /\ trace = <<>>
    /\ folio_inventory = NoJson
    /\ item = NoItem
    /\ pol = NoPol
    /\ fund = NoFund
    /\ holdings_record = NoHoldings
    /\ permanent_location_id = "Unbound"
    /\ permanent_location = "Unbound"
    /\ instance_id = "Unbound"
    /\ prefix = NoStr
    /\ suffix = NoStr
    /\ replacements = <<>>
    /\ xml_raw = NoXml
    /\ result = NoResult
    /\ instance = NoInstance
    /\ call_number_type_result = "Unbound"
    /\ response = NoResponse
    /\ failure = "None"

\* ---------------------------------------------------------------- helpers
Ev(e, ok) == [ev |-> e, ok |-> ok]

\* An exception that nothing catches ends the request.
Raise(e) == pc' = "failed" /\ failure' = e

\* read_item, line 58: the test that selects the JSON passthrough.
\* A variant that never takes the passthrough.
json_branch_never(fmt) == FALSE

json_branch(fmt) == fmt = "json"

\* read_item, line 101: the test that gates the replacement stage.
\* A variant that always rewrites.
replace_branch_always(flag) == TRUE

replace_branch(flag) == flag

\* read_item, line 132: the test that gates the transform and patch stages.
transform_branch(flag) == flag

\* read_item, lines 92-95: the location written into the item.
EffectiveLocation(id, name) == [id |-> id, name |-> name]

\* _get_collection_name, lines 164-168: the first note of the given type.
RECURSIVE CollectionNote(_, _)
CollectionNote(notes, type_id) ==
    IF notes = <<>> THEN ""
    ELSE IF Head(notes).instanceNoteTypeId = type_id THEN Head(notes).note
    ELSE CollectionNote(Tail(notes), type_id)

\* read_item, lines 65-88: the order of the enrichment statements: selecting
\* the item, then the holding-summary and order-line block, then the holdings
\* record, then the location.
\* A variant that fetches the holdings record before the holding-summary.
StatementAfterHoldingsFirst(stage) ==
    CASE stage = "select" -> "holdings_record"
      [] stage = "holdings_record" -> "holding_summary"
      [] stage = "funds" -> "location"

StatementAfter(stage) ==
    CASE stage = "select" -> "holding_summary"
      [] stage = "funds" -> "holdings_record"
      [] stage = "holdings_record" -> "location"

\* ---------------------------------------------------------------- actions
\* read_item, line 53 (_okapi_login, lines 204-217): the login call; a
\* non-success answer raises.
Login ==
    /\ pc = "login"
    /\ \E ok \in BOOLEAN :
        /\ trace' = Append(trace, Ev("login", ok))
        /\ IF ok
           THEN pc' = "item_query" /\ failure' = failure
           ELSE Raise("HTTPError")
    /\ UNCHANGED <<barcode, format, replace, transform, csv_file,
                   folio_inventory, item, pol, fund,
                   holdings_record, permanent_location_id,
                   permanent_location, instance_id, prefix, suffix,
                   replacements, xml_raw, result, instance,
                   call_number_type_result, response>>

\* read_item, lines 48-56: the item query by barcode (its status is not checked).
ItemQuery ==
    /\ pc = "item_query"
    /\ \E r \in ItemQueryResponses :
        /\ folio_inventory' = r
        /\ trace' = Append(trace, Ev("item_query", r.ok))
    /\ pc' = "format"
    /\ UNCHANGED <<barcode, format, replace, transform, csv_file, item,
                   pol, fund, holdings_record,
                   permanent_location_id, permanent_location,
                   instance_id, prefix, suffix, replacements,
                   xml_raw, result, instance,
                   call_number_type_result, response, failure>>

\* read_item, lines 58-59: format == "json" returns the item query's JSON.
ReturnJson ==
    /\ pc = "format"
    /\ json_branch(format)
    /\ response' = [sent |-> TRUE, media |-> "application/json",
                    json |-> folio_inventory, xml |-> NoResult]
    /\ pc' = "done"
    /\ UNCHANGED <<barcode, format, replace, transform, csv_file, trace,
                   folio_inventory, item, pol, fund,
                   holdings_record, permanent_location_id,
                   permanent_location, instance_id, prefix, suffix,
                   replacements, xml_raw, result, instance,
                   call_number_type_result, failure>>

\* read_item, lines 60-67 and 127-130: data["items"][0]; an empty collection
\* raises IndexError, which the handler turns into the error document.
SelectItem ==
    /\ pc = "format"
    /\ ~json_branch(format)
    /\ IF ~folio_inventory.has_items
       THEN /\ Raise("KeyError")
            /\ UNCHANGED <<item, xml_raw>>
       ELSE IF folio_inventory.items = <<>>
       THEN /\ xml_raw' = ErrorDoc(barcode)
            /\ pc' = "transform"
            /\ UNCHANGED <<item, failure>>
       ELSE /\ item' = folio_inventory.items[1]
            /\ pc' = StatementAfter("select")
            /\ UNCHANGED <<xml_raw, failure>>
    /\ UNCHANGED <<barcode, format, replace, transform, csv_file, trace,
                   folio_inventory, pol, fund, holdings_record,
                   permanent_location_id, permanent_location,
                   instance_id, prefix, suffix, replacements,
                   result, instance, call_number_type_result,
                   response>>

\* read_item, lines 67-73: the holding-summary call; .json() is taken without
\* checking the status.
HoldingSummary ==
    /\ pc = "holding_summary"
    /\ \E r \in HoldingSummaryResponses :
        /\ trace' = Append(trace, Ev("holding_summary", r.ok))
        /\ CASE r.body = "text" ->
                  Raise("JSONDecodeError") /\ pol' = pol
             [] r.body = "errors" ->
                  /\ Raise("KeyError")
                  /\ pol' = [bound |-> TRUE, summaries |-> 0]
             [] OTHER ->
                  /\ pol' = [bound |-> TRUE, summaries |-> r.summaries]
                  /\ pc' = IF r.summaries > 0 THEN "order_line"
                           ELSE StatementAfter("funds")
                  /\ failure' = failure
    /\ UNCHANGED <<barcode, format, replace, transform, csv_file,
                   folio_inventory, item, fund, holdings_record,
                   permanent_location_id, permanent_location,
                   instance_id, prefix, suffix, replacements,
                   xml_raw, result, instance,
                   call_number_type_result, response>>

\* read_item, lines 74-82: the order-line call and the fund loop; .json() is
\* taken without checking the status, and a JSON body without fundDistribution
\* is passed over.
OrderLine ==
    /\ pc = "order_line"
    /\ \E r \in OrderLineResponses :
        /\ trace' = Append(trace, Ev("order_line", r.ok))
        /\ IF r.body = "text"
           THEN /\ Raise("JSONDecodeError")
                /\ UNCHANGED <<fund, item>>
           ELSE /\ fund' = [bound |-> TRUE, has_fd |-> r.has_fd, fd |-> r.fd]
                /\ item' = [item EXCEPT !.fund =
                               IF r.has_fd THEN AttachFund(r.fd, item.fund)
                               ELSE item.fund]
                /\ pc' = StatementAfter("funds")
                /\ failure' = failure
    /\ UNCHANGED <<barcode, format, replace, transform, csv_file,
                   folio_inventory, pol, holdings_record,
                   permanent_location_id, permanent_location,
                   instance_id, prefix, suffix, replacements,
                   xml_raw, result, instance,
                   call_number_type_result, response>>

\* read_item, line 85 (_get_holdings_record, lines 171-177).
GetHoldingsRecord ==
    /\ pc = "holdings_record"
    /\ \/ /\ trace' = Append(trace, Ev("holdings_record", FALSE))
          /\ Raise("HTTPError")
          /\ holdings_record' = holdings_record
       \/ \E h \in HoldingsRecords :
            /\ trace' = Append(trace, Ev("holdings_record", TRUE))
            /\ holdings_record' = h
            /\ pc' = StatementAfter("holdings_record")
            /\ failure' = failure
    /\ UNCHANGED <<barcode, format, replace, transform, csv_file,
                   folio_inventory, item, pol, fund,
                   permanent_location_id, permanent_location,
                   instance_id, prefix, suffix, replacements,
                   xml_raw, result, instance,
                   call_number_type_result, response>>

\* read_item, lines 88-95 (_retrieve_permanent_location, lines 234-250).  With
\* no permanentLocationId, building the ValueError's message reads holdings_id,
\* a name the function does not have: a NameError is raised in its place.
RetrievePermanentLocation ==
    /\ pc = "location"
    /\ IF holdings_record.permanentLocationId = "None"
       THEN /\ Raise("NameError")
            /\ UNCHANGED <<trace, item, permanent_location_id,
                           permanent_location, instance_id>>
       ELSE \E ok \in BOOLEAN, name \in LocationNames :
            /\ trace' = Append(trace, Ev("location", ok))
            /\ IF ~ok
               THEN /\ Raise("HTTPError")
                    /\ UNCHANGED <<item, permanent_location_id,
                                   permanent_location, instance_id>>
               ELSE IF name = "None"
               THEN /\ Raise("ValueError: Location missing Name")
                    /\ UNCHANGED <<item, permanent_location_id,
                                   permanent_location, instance_id>>
               ELSE /\ permanent_location_id' = holdings_record.permanentLocationId
                    /\ permanent_location' = name
                    /\ instance_id' = holdings_record.instanceId
                    /\ item' = [item EXCEPT !.effectiveLocation =
                                   EffectiveLocation(
                                       holdings_record.permanentLocationId, name)]
                    /\ pc' = "trim"
                    /\ failure' = failure
    /\ UNCHANGED <<barcode, format, replace, transform, csv_file,
                   folio_inventory, pol, fund, holdings_record,
                   prefix, suffix, replacements, xml_raw, result,
                   instance, call_number_type_result, response>>

\* read_item, lines 98-99 (_trim_callno_components, lines 303-322).
TrimCallnoComponents ==
    /\ pc = "trim"
    /\ item' = [item EXCEPT !.ecc = TrimComps(item.ecc)]
    /\ prefix' = TrimComps(item.ecc).prefix
    /\ suffix' = TrimComps(item.ecc).suffix
    /\ trace' = Append(trace, Ev("normalize", TRUE))
    /\ pc' = "replace"
    /\ UNCHANGED <<barcode, format, replace, transform, csv_file,
                   folio_inventory, pol, fund, holdings_record,
                   permanent_location_id, permanent_location,
                   instance_id, replacements, xml_raw, result,
                   instance, call_number_type_result, response,
                   failure>>

\* read_item, lines 101-121: with replace, read the rule table and rewrite the
\* prefix and the suffix.
Replace ==
    /\ pc = "replace"
    /\ IF replace_branch(replace)
       THEN /\ replacements' = csv_file
            /\ item' = [item EXCEPT
                   !.ecc.prefix =
                       IF Truthy(prefix)
                       THEN Some(_replace_string(prefix.v,
                                    _reps_to_regex(csv_file, "prefix")))
                       ELSE @,
                   !.ecc.suffix =
                       IF Truthy(suffix)
                       THEN Some(_replace_string(suffix.v,
                                    _reps_to_regex(csv_file, "suffix")))
                       ELSE @]
            /\ trace' = trace \o <<Ev("read_rules", TRUE)>>
                   \o (IF Truthy(prefix) THEN <<Ev("replace_prefix", TRUE)>> ELSE <<>>)
                   \o (IF Truthy(suffix) THEN <<Ev("replace_suffix", TRUE)>> ELSE <<>>)
       ELSE UNCHANGED <<replacements, item, trace>>
    /\ pc' = "build_xml"
    /\ UNCHANGED <<barcode, format, replace, transform, csv_file,
                   folio_inventory, pol, fund, holdings_record,
                   permanent_location_id, permanent_location,
                   instance_id, prefix, suffix, xml_raw, result,
                   instance, call_number_type_result, response,
                   failure>>

\* read_item, line 123: the generic XML of the item.
BuildXml ==
    /\ pc = "build_xml"
    /\ xml_raw' = ItemXml(item)
    /\ trace' = Append(trace, Ev("build_xml", TRUE))
    /\ pc' = "transform"
    /\ UNCHANGED <<barcode, format, replace, transform, csv_file,
                   folio_inventory, item, pol, fund,
                   holdings_record, permanent_location_id,
                   permanent_location, instance_id, prefix, suffix,
                   replacements, result, instance,
                   call_number_type_result, response, failure>>

\* read_item, lines 132-135: with transform, the template transform of xml_raw
\* (whichever document it holds).
Transform ==
    /\ pc = "transform"
    /\ transform_branch(transform)
    /\ result' = Xslt(xml_raw)
    /\ trace' = Append(trace, Ev("xslt", TRUE))
    /\ pc' = "instance"
    /\ UNCHANGED <<barcode, format, replace, transform, csv_file,
                   folio_inventory, item, pol, fund,
                   holdings_record, permanent_location_id,
                   permanent_location, instance_id, prefix, suffix,
                   replacements, xml_raw, instance,
                   call_number_type_result, response, failure>>

\* read_item, lines 145-148: without transform, xml_raw is returned.
ReturnRaw ==
    /\ pc = "transform"
    /\ ~transform_branch(transform)
    /\ response' = [sent |-> TRUE, media |-> "application/xml",
                    json |-> NoJson, xml |-> Untransformed(xml_raw)]
    /\ pc' = "done"
    /\ UNCHANGED <<barcode, format, replace, transform, csv_file, trace,
                   folio_inventory, item, pol, fund,
                   holdings_record, permanent_location_id,
                   permanent_location, instance_id, prefix, suffix,
                   replacements, xml_raw, result, instance,
                   call_number_type_result, failure>>

\* read_item, line 138 (_instance_xml, lines 180-196): instance_id is read (an
\* unbound local when no item was found), the instance fetched, and the date
\* of publication and mms_id set.
InstanceXml ==
    /\ pc = "instance"
    /\ IF instance_id = "Unbound"
       THEN /\ Raise("UnboundLocalError")
            /\ UNCHANGED <<trace, instance, result>>
       ELSE \/ /\ trace' = Append(trace, Ev("instance", FALSE))
               /\ Raise("HTTPError")
               /\ UNCHANGED <<instance, result>>
            \/ \E i \in Instances :
               /\ trace' = Append(trace, Ev("instance", TRUE))
               /\ instance' = i
               /\ IF i.publication = <<>>
                  THEN Raise("IndexError") /\ result' = result
                  ELSE /\ result' = [result EXCEPT
                              !.patch.date_of_publication = i.publication[1],
                              !.patch.mms_id = i.hrid]
                       /\ pc' = "note_types"
                       /\ failure' = failure
    /\ UNCHANGED <<barcode, format, replace, transform, csv_file,
                   folio_inventory, item, pol, fund,
                   holdings_record, permanent_location_id,
                   permanent_location, instance_id, prefix, suffix,
                   replacements, xml_raw, call_number_type_result,
                   response>>

\* _instance_xml, lines 198-199 (_get_collection_name, lines 151-168).
GetCollectionName ==
    /\ pc = "note_types"
    /\ \/ /\ trace' = Append(trace, Ev("note_types", FALSE))
          /\ Raise("HTTPError")
          /\ result' = result
       \/ \E types \in NoteTypeResponses :
          /\ trace' = Append(trace, Ev("note_types", TRUE))
          /\ IF types # <<>> /\ ~instance.notes.present
             THEN Raise("TypeError") /\ result' = result
             ELSE /\ result' = [result EXCEPT !.patch.public_note =
                         IF types = <<>> THEN ""
                         ELSE CollectionNote(instance.notes.v, types[1])]
                  /\ pc' = "callno_type"
                  /\ failure' = failure
    /\ UNCHANGED <<barcode, format, replace, transform, csv_file,
                   folio_inventory, item, pol, fund,
                   holdings_record, permanent_location_id,
                   permanent_location, instance_id, prefix, suffix,
                   replacements, xml_raw, instance,
                   call_number_type_result, response>>

\* read_item, line 141 (_set_callno_type, lines 253-300).
SetCallnoType ==
    /\ pc = "callno_type"
    /\ IF holdings_record.callNumberTypeId = "None"
       THEN /\ Raise("KeyError")
            /\ UNCHANGED <<trace, result, call_number_type_result>>
       ELSE \/ /\ trace' = Append(trace, Ev("call_number_type", FALSE))
               /\ Raise("HTTPError")
               /\ UNCHANGED <<result, call_number_type_result>>
            \/ \E name \in CallNumberTypeNames :
               /\ trace' = Append(trace, Ev("call_number_type", TRUE))
               /\ call_number_type_result' = name
               /\ result' = [result EXCEPT
                      !.patch.call_number_type_desc = CallnoType(name).name,
                      !.patch.call_number_type = Str(CallnoType(name).code)]
               /\ pc' = "respond"
               /\ failure' = failure
    /\ UNCHANGED <<barcode, format, replace, transform, csv_file,
                   folio_inventory, item, pol, fund,
                   holdings_record, permanent_location_id,
                   permanent_location, instance_id, prefix, suffix,
                   replacements, xml_raw, instance, response>>

\* read_item, lines 143 and 148: the patched document is returned.
ReturnTransformed ==
    /\ pc = "respond"
    /\ response' = [sent |-> TRUE, media |-> "application/xml",
                    json |-> NoJson, xml |-> result]
    /\ pc' = "done"
    /\ UNCHANGED <<barcode, format, replace, transform, csv_file, trace,
                   folio_inventory, item, pol, fund,
                   holdings_record, permanent_location_id,
                   permanent_location, instance_id, prefix, suffix,
                   replacements, xml_raw, result, instance,
                   call_number_type_result, failure>>

\* ------------------------------------------------------------ specification
Next ==
    \/ Login
    \/ ItemQuery
    \/ ReturnJson
    \/ SelectItem
    \/ HoldingSummary
    \/ OrderLine
    \/ GetHoldingsRecord
    \/ RetrievePermanentLocation
    \/ TrimCallnoComponents
    \/ Replace
    \/ BuildXml
    \/ Transform
    \/ ReturnRaw
    \/ InstanceXml
    \/ GetCollectionName
    \/ SetCallnoType
    \/ ReturnTransformed

Spec == Init /\ [][Next]_vars

\* ------------------------------------------------------- reading the trace
Issued(e) == \E i \in DOMAIN trace : trace[i].ev = e
Succeeded(e) == \E i \in DOMAIN trace : trace[i] = Ev(e, TRUE)
Before(e1, e2) ==
    \A j \in DOMAIN trace :
        trace[j].ev = e2 => \E i \in 1..(j - 1) : trace[i].ev = e1

\* The item query answered with a collection holding no item / one item.
ItemQueried == pc \notin {"login", "item_query"} /\ Issued("item_query")
ItemNotFound ==
    ItemQueried /\ folio_inventory.has_items /\ folio_inventory.items = <<>>
ItemFound ==
    ItemQueried /\ folio_inventory.has_items /\ folio_inventory.items # <<>>
RawItemOf == folio_inventory.items[1]

\* ---------------------------------------------------------------------- C1
\* C1 (as claimed): on a non-json request whose item query returns an empty
\* collection the request never fails, the error document never goes through
\* the structural transform or a patch, and what is returned is exactly the
\* error document for the barcode, whatever replace and transform are.
C1_ErrorDocumentReturned ==
    (format # "json" /\ ItemNotFound) =>
        /\ pc # "failed"
        /\ ~Issued("xslt")
        /\ ~Issued("instance")
        /\ ~Issued("call_number_type")
        /\ pc = "done" =>
              /\ response.media = "application/xml"
              /\ response.xml = Untransformed(ErrorDoc(barcode))

\* ---------------------------------------------------------------------- C2
ReadRank(e) ==
    CASE e = "item_query" -> 1
      [] e = "holding_summary" -> 2
      [] e = "order_line" -> 3
      [] e = "holdings_record" -> 4
      [] e = "location" -> 5
      [] e = "instance" -> 6
      [] OTHER -> 0

\* C2 (as claimed): the holding-summary and order-line requests are never
\* issued before the holdings record has been fetched successfully, and the
\* location and instance requests never before the holdings record fetch.
C2_SummaryAfterHoldingsRecord ==
    \A j \in DOMAIN trace :
        trace[j].ev \in {"holding_summary", "order_line", "location", "instance"}
            => \E i \in 1..(j - 1) : trace[i] = Ev("holdings_record", TRUE)

\* C2 (amended): on a non-json request the reads are issued in the order item
\* query, holding-summary, order line, holdings record, location, instance,
\* each at most once; the holdings record is fetched only after the
\* holding-summary (and the order line, when there is a summary) has been
\* requested, and the location and instance requests are issued only after the
\* holdings record has been fetched successfully.
C2_ReadOrder ==
    /\ \A i, j \in DOMAIN trace :
          (i < j /\ ReadRank(trace[i].ev) > 0 /\ ReadRank(trace[j].ev) > 0)
              => ReadRank(trace[i].ev) < ReadRank(trace[j].ev)
    /\ Before("item_query", "holding_summary")
    /\ Before("holding_summary", "order_line")
    /\ Before("holding_summary", "holdings_record")
    /\ (pol.bound /\ pol.summaries > 0 /\ Issued("holdings_record"))
          => Issued("order_line")
    /\ \A j \in DOMAIN trace :
          trace[j].ev \in {"location", "instance"}
              => \E i \in 1..(j - 1) : trace[i] = Ev("holdings_record", TRUE)

\* A found item whose six reads were all issued.
C2_Witness ==
    /\ ItemFound
    /\ \A e \in {"item_query", "holding_summary", "order_line",
                 "holdings_record", "location", "instance"} : Succeeded(e)

\* ---------------------------------------------------------------------- C3
DependentFetches ==
    {"holdings_record", "holding_summary", "order_line", "location",
     "instance", "note_types", "call_number_type"}

\* C3 (as claimed): a dependent fetch that answers with a non-success status
\* is the last outbound call of the request, and the request fails without a
\* response.
C3_FailedFetchAborts ==
    \A i \in DOMAIN trace :
        (trace[i].ev \in DependentFetches /\ ~trace[i].ok) =>
            /\ i = Len(trace)
            /\ pc = "failed"
            /\ ~response.sent

\* ---------------------------------------------------------------------- C4
\* C4: with format "json" the handler issues no call after the item query,
\* reads no rule table, builds no item, XML or error document, cannot fail
\* once the item query is made, and returns the item query's JSON as it came
\* (an empty collection included).
C4_JsonPassthrough ==
    format = "json" =>
        /\ \A i \in DOMAIN trace : trace[i].ev \in {"login", "item_query"}
        /\ replacements = <<>>
        /\ item = NoItem /\ xml_raw = NoXml /\ result = NoResult
        /\ pc \in {"login", "item_query", "format", "done", "failed"}
        /\ pc = "failed" => trace[Len(trace)] = Ev("login", FALSE)
        /\ pc = "format" => ENABLED ReturnJson
        /\ pc = "done" =>
              /\ response.sent
              /\ response.media = "application/json"
              /\ response.json = folio_inventory
              /\ response.xml = NoResult

\* A json request answered with the empty collection it received.
C4_Witness ==
    /\ format = "json" /\ pc = "done" /\ replace /\ transform
    /\ ItemNotFound
    /\ response.json.items = <<>>

\* ---------------------------------------------------------------------- C5
\* The first code of the list that belongs to the allow-set, "None" if none.
RECURSIVE FirstPlateFund(_)
FirstPlateFund(fds) ==
    IF fds = <<>> THEN "None"
    ELSE IF Head(fds).has_code /\ Head(fds).code \in {"p2053", "p2052"}
    THEN Head(fds).code
    ELSE FirstPlateFund(Tail(fds))

\* C5 (as claimed): once the fund stage is over, the item's fund is the first
\* code of the order line's fund distribution that is in the allow-set, and
\* the item has no fund when there is no such code, no fund distribution or no
\* holding summary.
C5_FirstPlateFundAttached ==
    (ItemFound /\ pc \notin {"format", "holding_summary", "order_line", "failed"}) =>
        item.fund = IF fund.bound /\ fund.has_fd
                    THEN FirstPlateFund(fund.fd)
                    ELSE "None"

\* ---------------------------------------------------------------------- C6
\* C6 (as claimed): a holdings record without permanentLocationId fails the
\* request with the missing-permanent-location ValueError before any location
\* fetch; a location without a name fails it with the missing-name
\* ValueError; and an item document that is returned carries the holdings
\* record's permanent location id and a name.
C6_LocationIntegrity ==
    /\ (holdings_record.bound /\ holdings_record.permanentLocationId = "None"
            /\ pc # "location") =>
          /\ pc = "failed"
          /\ failure = "ValueError: Holding missing permanent location"
          /\ ~Issued("location")
    /\ (pc = "failed" /\ trace # <<>> /\ trace[Len(trace)] = Ev("location", TRUE)) =>
          failure = "ValueError: Location missing Name"
    /\ (response.sent /\ response.xml.src.root = "item") =>
          /\ response.xml.src.item.effectiveLocation.id =
                holdings_record.permanentLocationId
          /\ response.xml.src.item.effectiveLocation.id # "None"
          /\ response.xml.src.item.effectiveLocation.name # "None"

\* ---------------------------------------------------------------------- C9
\* The eight known names with the name and the code text each is bound to.
KnownCallNumberTypes ==
    { <<"Library of Congress classification", "Library of Congress classification", "0">>,
      <<"LC Modified", "Library of Congress classification", "0">>,
      <<"Dewey Decimal classification", "Dewey Decimal classification", "1">>,
      <<"National Library of Medicine classification",
        "National Library of Medicine classification", "2">>,
      <<"Superintendent of Documents classification",
        "Superintendent of Documents classification", "3">>,
      <<"Shelving control number", "Shelving control number", "4">>,
      <<"Title", "Title", "5">>,
      <<"Shelved separately", "Shelved separately", "6">> }

\* C9: whatever name the call-number-type lookup answers, the patch completes
\* (no failure), the desc attribute and the element text are those of the
\* fixed table for a known name and ("Other scheme", "8") for any other, and
\* the text is never an unset code.
C9_VocabularyMapper ==
    call_number_type_result # "Unbound" =>
        /\ pc \in {"respond", "done"}
        /\ result.patch.call_number_type # "None"
        /\ \A t \in KnownCallNumberTypes :
              call_number_type_result = t[1] =>
                  /\ result.patch.call_number_type_desc = t[2]
                  /\ result.patch.call_number_type = t[3]
        /\ (\A t \in KnownCallNumberTypes : call_number_type_result # t[1]) =>
              /\ result.patch.call_number_type_desc = "Other scheme"
              /\ result.patch.call_number_type = "8"
        /\ pc = "done" => response.xml = result

\* "LC Modified" relabelled in a returned document.
C9_Witness ==
    /\ pc = "done"
    /\ call_number_type_result = "LC Modified"
    /\ response.xml.patch.call_number_type_desc = "Library of Congress classification"

\* --------------------------------------------------------------------- C10
TransformEvents == {"xslt", "instance", "note_types", "call_number_type"}
ReplaceEvents == {"read_rules", "replace_prefix", "replace_suffix"}

\* C10: on a found item, normalization precedes every rule; the rule table is
\* read and the engine run only with replace (without it the prefix and the
\* suffix stay the normalized values); the generic XML is built after
\* normalization and replacement, from the item as they left it; and the
\* transform, the instance, note-type and call-number-type requests happen
\* only with transform and after the generic XML is built (without it the
\* response is the generic XML).
C10_StageOrder ==
    (format # "json" /\ ItemFound) =>
        /\ \A e \in ReplaceEvents : Before("normalize", e)
        /\ \A e \in ReplaceEvents : Issued(e) => replace
        /\ (replace /\ Issued("build_xml")) => Issued("read_rules")
        /\ (~replace /\ Issued("normalize")) =>
              /\ replacements = <<>>
              /\ item.ecc = TrimComps(RawItemOf.ecc)
              /\ item.ecc.prefix = prefix /\ item.ecc.suffix = suffix
        /\ Before("normalize", "build_xml")
        /\ \A j \in DOMAIN trace : trace[j].ev = "build_xml" =>
              \A i \in DOMAIN trace : trace[i].ev \in ReplaceEvents => i < j
        /\ Issued("build_xml") => xml_raw = ItemXml(item)
        /\ \A e \in TransformEvents : Issued(e) => transform
        /\ \A e \in TransformEvents : Before("build_xml", e)
        /\ (~transform /\ pc = "done") =>
              /\ response.media = "application/xml"
              /\ response.xml = Untransformed(xml_raw)
        /\ (transform /\ pc = "done") =>
              /\ response.xml = result
              /\ result.transformed /\ result.src = xml_raw
              /\ Succeeded("instance") /\ Succeeded("call_number_type")

\* A found item returned transformed, with its raw prefix normalized and then
\* rewritten by the rule table.
C10_Witness ==
    /\ ItemFound /\ pc = "done" /\ replace /\ transform
    /\ prefix # RawItemOf.ecc.prefix
    /\ response.xml.src.item.ecc.prefix # prefix
    /\ response.xml.transformed

\* ----------------------------------------------- the Normalizer on its own
\* A request that has reached the Normalizer: the item was found, its holdings
\* record and location fetched, and nothing rewritten yet.
TraceToLocation ==
    <<Ev("login", TRUE), Ev("item_query", TRUE), Ev("holding_summary", TRUE),
      Ev("holdings_record", TRUE), Ev("location", TRUE)>>

TrimAlphabet == {"a", " ", "\t"}
TrimWide == {NoStr} \cup {Some(t) : t \in SeqsUpTo(TrimAlphabet, MaxLen)}
TrimFew == {NoStr, Some(<<" ", "a", " ", " ">>)}
TrimItems ==
    {RawItem(c, p, x) : c \in TrimWide, p \in TrimFew, x \in TrimFew}
    \cup {RawItem(c, p, x) : c \in TrimFew, p \in TrimWide, x \in TrimFew}
    \cup {RawItem(c, p, x) : c \in TrimFew, p \in TrimFew, x \in TrimWide}

AtLocationFetched(it) ==
    /\ barcode = 36105
    /\ format = "xml"
    /\ transform = TRUE
    /\ folio_inventory = [ok |-> TRUE, has_items |-> TRUE, items |-> <<it>>]
    /\ item = [it EXCEPT !.effectiveLocation = EffectiveLocation("loc1", "Stacks")]
    /\ pol = [bound |-> TRUE, summaries |-> 0]
    /\ fund = NoFund
    /\ holdings_record =
          [bound |-> TRUE, permanentLocationId |-> "loc1",
           instanceId |-> "in1", callNumberTypeId |-> "cnt1"]
    /\ permanent_location_id = "loc1"
    /\ permanent_location = "Stacks"
    /\ instance_id = "in1"
    /\ replacements = <<>>
    /\ xml_raw = NoXml
    /\ result = NoResult
    /\ instance = NoInstance
    /\ call_number_type_result = "Unbound"
    /\ response = NoResponse
    /\ failure = "None"

InitTrim ==
    /\ \E it \in TrimItems : AtLocationFetched(it)
    /\ replace \in BOOLEAN
    /\ csv_file = <<>>
    /\ pc = "trim"
    /\ trace = TraceToLocation
    /\ prefix = NoStr
    /\ suffix = NoStr

NextTrim == TrimCallnoComponents

SpecTrim == InitTrim /\ [][NextTrim]_vars

\* ---------------------------------------------------------------------- C8
Components == {"callNumber", "prefix", "suffix"}

NoDoubleSpace(t) ==
    \A i \in 1..(Len(t) - 1) : ~(t[i] = " " /\ t[i + 1] = " ")
NoOuterWhitespace(t) ==
    t = <<>> \/ (~IsWhitespace(t[1]) /\ ~IsWhitespace(t[Len(t)]))

\* C8: after _trim_callno_components, every component that was present and
\* non-empty holds a value without two consecutive spaces and without leading
\* or trailing whitespace; an absent or empty component is as it was; the
\* returned prefix and suffix are the item's; and normalizing the item again
\* changes nothing.
C8_Normalizer ==
    (ItemFound /\ pc = "replace") =>
        /\ \A k \in Components :
              IF Truthy(RawItemOf.ecc[k])
              THEN /\ item.ecc[k].present
                   /\ NoDoubleSpace(item.ecc[k].v)
                   /\ NoOuterWhitespace(item.ecc[k].v)
              ELSE item.ecc[k] = RawItemOf.ecc[k]
        /\ prefix = item.ecc.prefix
        /\ suffix = item.ecc.suffix
        /\ TrimComps(item.ecc) = item.ecc
        /\ TrimComps(item.ecc).prefix = prefix
        /\ TrimComps(item.ecc).suffix = suffix

\* A prefix with a run of spaces inside and whitespace around it, normalized.
C8_Witness ==
    /\ pc = "replace"
    /\ RawItemOf.ecc.prefix = Some(<<"\t", "a", " ", " ">>)
    /\ item.ecc.prefix = Some(<<"a">>)
    /\ RawItemOf.ecc.callNumber = NoStr /\ item.ecc.callNumber = NoStr

\* --------------------------------------- the Replacement Engine on its own
EngineAlphabet == {"a", "A", "b"}
EngineInputs == {NoStr} \cup {Some(t) : t \in SeqsUpTo(EngineAlphabet, MaxInput)}
EngineSuffixes == {NoStr, Some(<<"A", "b">>)}
EngineRules ==
    {Rule(f, x, r) : f \in {"prefix", "suffix"},
                     x \in {<<"a">>, <<"A", "b">>},
                     r \in {<<"a", "b">>, <<"b">>, <<>>}}
EngineTables == SeqsUpTo(EngineRules, MaxRules)

InitRepl ==
    /\ \E p \in EngineInputs, x \in EngineSuffixes :
          /\ AtLocationFetched(RawItem(Some(<<"Q">>), p, x))
          /\ prefix = p
          /\ suffix = x
    /\ replace = TRUE
    /\ csv_file \in EngineTables
    /\ pc = "replace"
    /\ trace = Append(TraceToLocation, Ev("normalize", TRUE))

NextRepl == Replace

SpecRepl == InitRepl /\ [][NextRepl]_vars

\* ---------------------------------------------------------------------- C7
\* Case-insensitive equality of two whole strings.
SameIgnoringCase(a, b) ==
    Len(a) = Len(b) /\ \A k \in 1..Len(a) : Lower(a[k]) = Lower(b[k])

\* The rewriting the claim describes: the rows of the field, in table order,
\* each replacing the current value when its string is the whole value.
RECURSIVE WholeStringRewrite(_, _, _)
WholeStringRewrite(t, table, field) ==
    IF table = <<>> THEN t
    ELSE WholeStringRewrite(
            IF Head(table).field = field /\ SameIgnoringCase(Head(table).string, t)
            THEN Head(table).replacement
            ELSE t,
            Tail(table), field)

====
